---------------------------- MODULE Spec2Model ----------------------------
(***************************************************************************)
(* Model of the daily blog-post generator of the ai_blog repository:       *)
(* the generation command (blog/management/commands/generate_post.py),     *)
(* the request middleware (blog/middleware.py), the background tasks       *)
(* (blog/tasks.py) and the rows of blog/models.py they read and write.     *)
(*                                                                         *)
(* Text is modelled as a sequence of one-character strings so that         *)
(* slugify is computed, not assumed.  Dates are day numbers; the current   *)
(* date is the variable now.                                               *)
(***************************************************************************)
EXTENDS Integers, Sequences, FiniteSets, TLC

(* ------------------------------ bounds -------------------------------- *)

\* last date the clock reaches (the clock starts at date 1)
MaxDay == 2
\* number of scheduler-triggered Command.handle invocations in one
\* behaviour, those of waiting generate_blog_post messages included
MaxRuns == 2
\* number of waiting generate_blog_post messages at which the periodic
\* task is no longer followed (retries are appended beyond it)
MaxQueue == 1
\* number of direct Command.handle invocations in one behaviour
MaxCliRuns == 2
\* view_count up to which detail views of a Post are followed
MaxViews == 2

(* ------------------------- program constants -------------------------- *)

\* Task.max_retries, which self.retry of generate_blog_post applies
MaxRetries == 3


\* list(topics.keys()) in Command.handle
Categories == <<"plants", "flowers", "fruits", "gardening", "care">>

\* image_types with the first two entries exchanged
image_typesSwapped ==
  <<"care", "overview", "closeup", "indoor", "healthy", "decor">>

\* image_types of Command.download_and_store_post_images
image_types == <<"overview", "care", "closeup", "indoor", "healthy", "decor">>

get_daily_topics ==
  [ plants |-> <<
      <<"M","o","n","s","t","e","r","a"," ","D","e","l","i","c","i","o","s","a"," ","C","a","r","e"," ","G","u","i","d","e">>,
      <<"S","n","a","k","e"," ","P","l","a","n","t"," ","B","e","n","e","f","i","t","s"," ","a","n","d"," ","C","a","r","e">>,
      <<"P","o","t","h","o","s"," ","P","l","a","n","t"," ","P","r","o","p","a","g","a","t","i","o","n">>,
      <<"Z","Z"," ","P","l","a","n","t"," ","C","a","r","e"," ","T","i","p","s">>,
      <<"F","i","d","d","l","e"," ","L","e","a","f"," ","F","i","g"," ","C","a","r","e">>,
      <<"P","e","a","c","e"," ","L","i","l","y"," ","C","a","r","e"," ","G","u","i","d","e">>,
      <<"A","l","o","e"," ","V","e","r","a"," ","P","l","a","n","t"," ","B","e","n","e","f","i","t","s">>,
      <<"S","p","i","d","e","r"," ","P","l","a","n","t"," ","C","a","r","e">>,
      <<"P","h","i","l","o","d","e","n","d","r","o","n"," ","C","a","r","e"," ","T","i","p","s">>,
      <<"C","a","l","a","t","h","e","a"," ","P","l","a","n","t"," ","C","a","r","e">>,
      <<"B","a","m","b","o","o"," ","P","l","a","n","t"," ","C","a","r","e">>,
      <<"S","u","c","c","u","l","e","n","t"," ","C","a","r","e"," ","G","u","i","d","e">>,
      <<"C","a","c","t","u","s"," ","C","a","r","e"," ","T","i","p","s">>,
      <<"F","e","r","n"," ","P","l","a","n","t"," ","C","a","r","e">>,
      <<"P","a","l","m"," ","T","r","e","e"," ","C","a","r","e">>
    >>,
    flowers |-> <<
      <<"R","o","s","e"," ","C","a","r","e"," ","a","n","d"," ","M","a","i","n","t","e","n","a","n","c","e">>,
      <<"O","r","c","h","i","d"," ","C","a","r","e"," ","G","u","i","d","e">>,
      <<"T","u","l","i","p"," ","G","r","o","w","i","n","g"," ","T","i","p","s">>,
      <<"S","u","n","f","l","o","w","e","r"," ","C","a","r","e">>,
      <<"L","a","v","e","n","d","e","r"," ","P","l","a","n","t"," ","C","a","r","e">>,
      <<"D","a","i","s","y"," ","F","l","o","w","e","r"," ","C","a","r","e">>,
      <<"P","e","o","n","y"," ","C","a","r","e"," ","G","u","i","d","e">>,
      <<"H","y","d","r","a","n","g","e","a"," ","C","a","r","e"," ","T","i","p","s">>,
      <<"D","a","f","f","o","d","i","l"," ","G","r","o","w","i","n","g"," ","G","u","i","d","e">>,
      <<"I","r","i","s"," ","F","l","o","w","e","r"," ","C","a","r","e">>,
      <<"C","a","r","n","a","t","i","o","n"," ","C","a","r","e">>,
      <<"C","h","r","y","s","a","n","t","h","e","m","u","m"," ","C","a","r","e">>,
      <<"A","z","a","l","e","a"," ","C","a","r","e"," ","G","u","i","d","e">>,
      <<"C","a","m","e","l","l","i","a"," ","C","a","r","e"," ","T","i","p","s">>,
      <<"G","a","r","d","e","n","i","a"," ","C","a","r","e">>
    >>,
    fruits |-> <<
      <<"S","t","r","a","w","b","e","r","r","y"," ","G","r","o","w","i","n","g"," ","G","u","i","d","e">>,
      <<"T","o","m","a","t","o"," ","P","l","a","n","t"," ","C","a","r","e">>,
      <<"C","i","t","r","u","s"," ","T","r","e","e"," ","C","a","r","e">>,
      <<"A","p","p","l","e"," ","T","r","e","e"," ","M","a","i","n","t","e","n","a","n","c","e">>,
      <<"B","l","u","e","b","e","r","r","y"," ","B","u","s","h"," ","C","a","r","e">>,
      <<"R","a","s","p","b","e","r","r","y"," ","P","l","a","n","t"," ","C","a","r","e">>,
      <<"G","r","a","p","e"," ","V","i","n","e"," ","C","a","r","e">>,
      <<"P","e","a","c","h"," ","T","r","e","e"," ","C","a","r","e">>,
      <<"C","h","e","r","r","y"," ","T","r","e","e"," ","C","a","r","e">>,
      <<"P","l","u","m"," ","T","r","e","e"," ","C","a","r","e">>,
      <<"P","e","a","r"," ","T","r","e","e"," ","C","a","r","e">>,
      <<"F","i","g"," ","T","r","e","e"," ","C","a","r","e">>,
      <<"P","o","m","e","g","r","a","n","a","t","e"," ","T","r","e","e"," ","C","a","r","e">>,
      <<"A","v","o","c","a","d","o"," ","T","r","e","e"," ","C","a","r","e">>,
      <<"M","a","n","g","o"," ","T","r","e","e"," ","C","a","r","e">>
    >>,
    gardening |-> <<
      <<"O","r","g","a","n","i","c"," ","G","a","r","d","e","n","i","n","g"," ","T","i","p","s">>,
      <<"C","o","n","t","a","i","n","e","r"," ","G","a","r","d","e","n","i","n","g"," ","G","u","i","d","e">>,
      <<"I","n","d","o","o","r"," ","G","a","r","d","e","n","i","n","g"," ","T","i","p","s">>,
      <<"G","a","r","d","e","n"," ","S","o","i","l"," ","P","r","e","p","a","r","a","t","i","o","n">>,
      <<"F","e","r","t","i","l","i","z","e","r"," ","G","u","i","d","e">>,
      <<"P","e","s","t"," ","C","o","n","t","r","o","l"," ","M","e","t","h","o","d","s">>,
      <<"P","r","u","n","i","n","g"," ","T","e","c","h","n","i","q","u","e","s">>,
      <<"S","e","e","d"," ","S","t","a","r","t","i","n","g"," ","G","u","i","d","e">>,
      <<"G","a","r","d","e","n"," ","P","l","a","n","n","i","n","g"," ","T","i","p","s">>,
      <<"W","a","t","e","r","i","n","g"," ","T","e","c","h","n","i","q","u","e","s">>,
      <<"C","o","m","p","o","s","t","i","n","g"," ","G","u","i","d","e">>,
      <<"G","a","r","d","e","n"," ","T","o","o","l","s"," ","G","u","i","d","e">>,
      <<"S","e","a","s","o","n","a","l"," ","G","a","r","d","e","n","i","n","g"," ","T","i","p","s">>,
      <<"V","e","r","t","i","c","a","l"," ","G","a","r","d","e","n","i","n","g">>,
      <<"H","e","r","b"," ","G","a","r","d","e","n"," ","C","a","r","e">>
    >>,
    care |-> <<
      <<"P","l","a","n","t"," ","W","a","t","e","r","i","n","g"," ","G","u","i","d","e">>,
      <<"L","i","g","h","t"," ","R","e","q","u","i","r","e","m","e","n","t","s"," ","f","o","r"," ","P","l","a","n","t","s">>,
      <<"T","e","m","p","e","r","a","t","u","r","e"," ","C","o","n","t","r","o","l"," ","f","o","r"," ","P","l","a","n","t","s">>,
      <<"H","u","m","i","d","i","t","y"," ","f","o","r"," ","I","n","d","o","o","r"," ","P","l","a","n","t","s">>,
      <<"P","o","t","t","i","n","g"," ","M","i","x"," ","G","u","i","d","e">>,
      <<"R","e","p","o","t","t","i","n","g"," ","P","l","a","n","t","s">>,
      <<"P","l","a","n","t"," ","D","i","s","e","a","s","e"," ","P","r","e","v","e","n","t","i","o","n">>,
      <<"F","e","r","t","i","l","i","z","i","n","g"," ","S","c","h","e","d","u","l","e">>,
      <<"P","r","u","n","i","n","g"," ","H","o","u","s","e","p","l","a","n","t","s">>,
      <<"P","l","a","n","t"," ","P","r","o","p","a","g","a","t","i","o","n"," ","M","e","t","h","o","d","s">>,
      <<"S","e","a","s","o","n","a","l"," ","P","l","a","n","t"," ","C","a","r","e">>,
      <<"P","l","a","n","t"," ","P","e","s","t"," ","M","a","n","a","g","e","m","e","n","t">>,
      <<"R","o","o","t"," ","R","o","t"," ","P","r","e","v","e","n","t","i","o","n">>,
      <<"L","e","a","f"," ","C","a","r","e"," ","T","i","p","s">>,
      <<"P","l","a","n","t"," ","N","u","t","r","i","t","i","o","n"," ","G","u","i","d","e">>
    >> ]

(* ------------------------------- text --------------------------------- *)

UpperChars == <<"A","B","C","D","E","F","G","H","I","J","K","L","M",
                "N","O","P","Q","R","S","T","U","V","W","X","Y","Z">>
LowerChars == <<"a","b","c","d","e","f","g","h","i","j","k","l","m",
                "n","o","p","q","r","s","t","u","v","w","x","y","z">>
DigitChars == <<"0","1","2","3","4","5","6","7","8","9">>

Range(f) == { f[i] : i \in DOMAIN f }

\* str.lower() on one character
Lower(c) ==
  IF c \in Range(UpperChars)
    THEN LowerChars[CHOOSE i \in DOMAIN UpperChars : UpperChars[i] = c]
    ELSE c

\* the character class [a-z0-9] of slugify's pattern
IsSlugChar(c) == c \in Range(LowerChars) \cup Range(DigitChars)

\* re.sub(r'[^a-z0-9]+', '-', text.lower()): every maximal run of other
\* characters becomes one hyphen
RECURSIVE SubRuns(_, _)
SubRuns(text, inRun) ==
  IF text = <<>> THEN <<>>
  ELSE LET c == Lower(Head(text)) IN
       IF IsSlugChar(c) THEN <<c>> \o SubRuns(Tail(text), FALSE)
       ELSE IF inRun THEN SubRuns(Tail(text), TRUE)
       ELSE <<"-">> \o SubRuns(Tail(text), TRUE)

\* str.strip('-')
RECURSIVE StripHyphens(_)
StripHyphens(s) ==
  IF s = <<>> THEN <<>>
  ELSE IF Head(s) = "-" THEN StripHyphens(Tail(s))
  ELSE IF s[Len(s)] = "-" THEN StripHyphens(SubSeq(s, 1, Len(s) - 1))
  ELSE s

slugify(text) == StripHyphens(SubRuns(text, FALSE))

\* str(n) for a natural number
RECURSIVE Decimal(_)
Decimal(n) ==
  IF n < 10 THEN <<DigitChars[n + 1]>>
  ELSE Decimal(n \div 10) \o <<DigitChars[(n % 10) + 1]>>

(* ------------------------------- dates -------------------------------- *)

\* dates are day numbers: date 1 is 1 January 2023.  The lengths of the
\* months from January 2023 to March 2024 (a February of 28 and one of 29
\* days)
MonthLengths == <<31, 28, 31, 30, 31, 30, 31, 31, 30, 31, 30, 31, 31, 29, 31>>

RECURSIVE DaysUpTo(_)
DaysUpTo(m) == IF m = 0 THEN 0 ELSE MonthLengths[m] + DaysUpTo(m - 1)

\* the last date of the calendar
LastDate == DaysUpTo(Len(MonthLengths))

\* the month (an index of MonthLengths) a date falls in
RECURSIVE MonthFrom(_, _)
MonthFrom(date, m) ==
  IF date <= MonthLengths[m] THEN m ELSE MonthFrom(date - MonthLengths[m], m + 1)
MonthOf(date) == MonthFrom(date, 1)

\* date.day
DayOfMonth(date) == date - DaysUpTo(MonthOf(date) - 1)

\* CategoryFor indexing with the day of the month itself
CategoryForNoOffset(date) ==
  Categories[(DayOfMonth(date) % Len(Categories)) + 1]

\* Command.handle, "if not category": the category for a date
CategoryFor(date) == Categories[((DayOfMonth(date) - 1) % Len(Categories)) + 1]

\* TopicFor cycling through all but the last topic of the list
TopicForShort(category, date) ==
  LET topic_list == get_daily_topics[category]
  IN  topic_list[((DayOfMonth(date) - 1) % (Len(topic_list) - 1)) + 1]

\* Command.handle, "Get topic for today": the topic of a category for a date
TopicFor(category, date) ==
  LET topic_list == get_daily_topics[category]
  IN  topic_list[((DayOfMonth(date) - 1) % Len(topic_list)) + 1]

(* ----------------------------- processes ------------------------------ *)

\* request threads that pass through DailyPostScheduler.__call__
MwProcs == {"mw1"}
\* celery workers that execute generate_blog_post
WorkerProcs == {"w1"}
\* direct invocations of Command.handle (GeneratePostView.post, manage.py)
CliProcs == {"cli1", "cli2"}
\* request threads that serve PostDetailView
ViewProcs == {"v1", "v2"}
Procs == MwProcs \cup WorkerProcs \cup CliProcs \cup ViewProcs

\* the category argument of a direct invocation: none, or one given
CliCategories == {"", "flowers"}

(* ------------------------- generator responses ------------------------ *)

Tag1 == <<"F","e","r","n">>
Tag2 == <<"f","e","r","n">>
\* the "tags" lists a response may carry
TagLists == { <<>>, <<Tag1, Tag2>> }

\* Post content is a sequence of pieces: running text, an <h2> heading, an
\* [IMAGE:type] placeholder, or (after rendering) the HTML of an image
Text == [kind |-> "text", type |-> ""]
Heading == [kind |-> "h2", type |-> ""]
Placeholder(image_type) == [kind |-> "placeholder", type |-> image_type]
ImageHtml(image_type) == [kind |-> "img", type |-> image_type]

\* content that follows the prompt (lines 342-349): every placeholder, one
\* of them used twice
SixPlaceholders ==
  <<Text, Placeholder("overview"), Heading, Text, Placeholder("care"),
    Heading, Placeholder("closeup"), Placeholder("indoor"), Heading,
    Placeholder("healthy"), Placeholder("decor"), Placeholder("overview")>>
\* content in which the generator left placeholders out
TwoPlaceholders ==
  <<Text, Placeholder("overview"), Heading, Text, Placeholder("care")>>

NoData == [kind |-> "none", title |-> <<>>, tags |-> <<>>, content |-> <<>>]

\* what Command.generate_post_content can return for a topic:
\*   "none"    - None (the service raised, or the text was not JSON)
\*   "nondict" - JSON that is not an object
\*   "nokey"   - an object without one of title / content / summary
\*   "full"    - an object with every required key
Responses(topic, tag_lists, contents) ==
  { NoData, [kind |-> "nondict", title |-> <<>>, tags |-> <<>>,
             content |-> <<>>] }
  \cup { [kind |-> k, title |-> topic, tags |-> tl, content |-> c] :
           k \in {"full", "nokey"}, tl \in tag_lists, c \in contents }

AllKinds == {"none", "nondict", "nokey", "full"}

(* ------------------------------- rows --------------------------------- *)

PlaceholderThumb == "plant-placeholder.jpg"
PlaceholderFeatured == "plant-featured-placeholder.jpg"

\* a Post instance that has not been constructed ('post' not in locals())
NoPost == [pk |-> 0, title |-> <<>>, slug |-> <<>>, category |-> "",
           published_at |-> 0, thumbnail |-> "", featured_image |-> "",
           thumbnail_url |-> "", featured_image_url |-> "",
           is_published |-> TRUE, content |-> <<>>, view_count |-> 0]

\* a PostScheduler instance that has not been read
NoScheduler == [last_run |-> 0, is_running |-> FALSE, task_id |-> 0]

NoMsg == [id |-> 0, retries |-> 0, category |-> "", force |-> FALSE]

\* the locals of one invocation, and a record of what happened in it:
\*   existed  - whether the existence check of line 518 found the slug
\*   today    - the date handle read last (lines 506 and 512)
\*   wrote    - pk of the Post row this run inserted (0: none)
\*   failure  - the step of handle that raised, other than an image step
\*              ("write": the Post write itself, "refused": the database
\*              being unavailable for it)
\*   outcome  - how handle ended: "exists", "genfail", "error", "created"
\*   returned - what the caller of handle received
\*   result   - how generate_blog_post ended
\*   message  - the message GeneratePostView.post adds for the user
\*   stored   - the content-image slots this run stored a PostImage for
\*   seen     - the PostImage rows a detail view read for its post
\*   rendered - the content a detail view rendered
NoLocals ==
  [category |-> "", force |-> FALSE, topic |-> <<>>, slug |-> <<>>,
   data |-> NoData, tags |-> {}, has_post |-> FALSE, post |-> NoPost,
   scheduler |-> NoScheduler, msg |-> NoMsg, existed |-> FALSE, today |-> 0,
   wrote |-> 0,
   failure |-> "",
   outcome |-> "", returned |-> "", result |-> "", message |-> "",
   stored |-> {}, seen |-> {}, rendered |-> <<>>]

\* Post_save without the placeholder defaults
Post_saveNoDefaults(post) ==
  [raised |-> FALSE,
   post |-> IF post.slug = <<>> THEN [post EXCEPT !.slug = slugify(post.title)]
            ELSE post]

\* Post.save up to super().save(): slug and placeholder defaults.  The
\* name cloudinary_cloud_name is bound only in the thumbnail branch, so the
\* featured branch raises NameError when it runs alone.
Post_save(post) ==
  LET p1 == IF post.slug = <<>> THEN [post EXCEPT !.slug = slugify(post.title)]
            ELSE post
      noThumb == p1.thumbnail = "" /\ p1.thumbnail_url = ""
      noFeat == p1.featured_image = "" /\ p1.featured_image_url = ""
      p2 == IF noThumb THEN [p1 EXCEPT !.thumbnail_url = PlaceholderThumb] ELSE p1
      p3 == IF noFeat THEN [p2 EXCEPT !.featured_image_url = PlaceholderFeatured]
            ELSE p2
  IN  [raised |-> noFeat /\ ~noThumb, post |-> IF noFeat /\ ~noThumb THEN p2 ELSE p3]

\* Command.create_or_get_tags over the Tag table: the rows afterwards, the
\* Tag objects collected (by slug) and whether an exception escaped
RECURSIVE create_or_get_tags(_, _, _)
create_or_get_tags(tag_names, table, acc) ==
  IF tag_names = <<>> THEN [table |-> table, tags |-> acc, raised |-> FALSE]
  ELSE
    LET tag_name == Head(tag_names)
        byName == { t \in table : t.name = tag_name }
        slug == slugify(tag_name)
        unique_slug == slug \o <<"-">> \o Decimal(Cardinality(table))
        Taken(sl) == \E t \in table : t.slug = sl
    IN  IF Cardinality(byName) = 1
          THEN create_or_get_tags(Tail(tag_names), table,
                                  acc \cup { t.slug : t \in byName })
        ELSE IF Cardinality(byName) > 1
          THEN [table |-> table, tags |-> acc, raised |-> TRUE]
        ELSE IF ~Taken(slug)
          THEN create_or_get_tags(Tail(tag_names),
                 table \cup {[name |-> tag_name, slug |-> slug]},
                 acc \cup {slug})
        ELSE IF ~Taken(unique_slug)
          THEN create_or_get_tags(Tail(tag_names),
                 table \cup {[name |-> tag_name, slug |-> unique_slug]},
                 acc \cup {unique_slug})
        ELSE [table |-> table, tags |-> acc, raised |-> TRUE]

(* ------------------------------- state -------------------------------- *)

VARIABLES
  now,          \* the current date (timezone.now().date())
  scheduler,    \* the PostScheduler row pk=1, and whether it exists
  posts,        \* the Post table
  images,       \* the PostImage table
  tags,         \* the Tag table
  post_tags,    \* the Post.tags relation: <<post pk, tag slug>>
  next_pk,      \* next primary key of the Post table
  queue,        \* generate_blog_post messages waiting in the job queue
  next_task,    \* next celery task id
  pc,           \* where each process is
  loc,          \* the locals of each process
  runs,         \* Command.handle invocations so far
  calls,        \* handle invocations made by the scheduler paths on date now
  last_done     \* date of the last end-of-run write (-1: none yet)

db == <<posts, images, tags, post_tags, next_pk>>
sched == <<scheduler, queue, next_task, calls, last_done>>
vars == <<now, scheduler, posts, images, tags, post_tags, next_pk, queue,
          next_task, pc, loc, runs, calls, last_done>>

Goto(p, label) == pc' = [pc EXCEPT ![p] = label]

\* Post.objects.filter(slug=slug).exists()
SlugExists(slug) == \E r \in posts : r.slug = slug

\* Model.delete of a Post: the row, and by on_delete=CASCADE its PostImage
\* rows and its rows of the tags relation
RowsWithout(pk) == { r \in posts : r.pk # pk }
\* ImagesWithout with no cascade to PostImage
ImagesKept(pk) == images
ImagesWithout(pk) == { i \in images : i.post # pk }
PostTagsWithout(pk) == { pt \in post_tags : pt[1] # pk }

Init ==
  /\ now = 1
  /\ scheduler \in { [exists |-> FALSE, last_run |-> 0, is_running |-> FALSE,
                       task_id |-> 0],
                      [exists |-> TRUE, last_run |-> 0, is_running |-> FALSE,
                       task_id |-> 0] }
  /\ posts = {}
  /\ images = {}
  /\ tags = {}
  /\ post_tags = {}
  /\ next_pk = 1
  /\ queue = <<>>
  /\ next_task = 1
  /\ pc = [p \in Procs |-> "idle"]
  /\ loc = [p \in Procs |-> NoLocals]
  /\ runs = 0
  /\ calls = 0
  /\ last_done = -1

\* the clock passes midnight
Tick ==
  /\ now < MaxDay
  /\ now' = now + 1
  /\ calls' = 0
  /\ UNCHANGED <<db, scheduler, queue, next_task, last_done, pc, loc, runs>>

(* --------------------------- Command.handle --------------------------- *)

\* handle, lines 503-508 ("if not category"): the category of the day
HCat(p) ==
  /\ pc[p] = "h_cat"
  /\ loc' = [loc EXCEPT ![p].category = CategoryFor(now), ![p].today = now]
  /\ Goto(p, "h_topic")
  /\ UNCHANGED <<now, db, sched, runs>>

\* handle, lines 510-517: the topic of the day (a second read of the clock)
\* and its slug
HTopic(p) ==
  /\ pc[p] = "h_topic"
  /\ LET topic == TopicFor(loc[p].category, now)
     IN  loc' = [loc EXCEPT ![p].topic = topic, ![p].slug = slugify(topic),
                            ![p].today = now]
  /\ Goto(p, "h_exists")
  /\ UNCHANGED <<now, db, sched, runs>>

\* HExists without the existence check
HExistsIgnored(p) ==
  /\ pc[p] = "h_exists"
  /\ Goto(p, "h_gen")
  /\ loc' = [loc EXCEPT ![p].existed = SlugExists(loc[p].slug)]
  /\ UNCHANGED <<now, db, sched, runs>>

\* handle, lines 518-520: the "already exists" check
HExists(p) ==
  /\ pc[p] = "h_exists"
  /\ IF SlugExists(loc[p].slug) /\ ~loc[p].force
       THEN /\ loc' = [loc EXCEPT ![p].existed = TRUE,
                                  ![p].outcome = "exists", ![p].returned = "None"]
            /\ Goto(p, "h_ret")
       ELSE /\ Goto(p, "h_gen")
            /\ loc' = [loc EXCEPT ![p].existed = SlugExists(loc[p].slug)]
  /\ UNCHANGED <<now, db, sched, runs>>

\* handle, lines 526-529: generate_post_content and "if not data: return"
HGen(p, kinds, tag_lists, contents) ==
  /\ pc[p] = "h_gen"
  /\ \E d \in { r \in Responses(loc[p].topic, tag_lists, contents) :
                  r.kind \in kinds } :
       IF d.kind = "none"
         THEN /\ loc' = [loc EXCEPT ![p].data = d, ![p].outcome = "genfail",
                                    ![p].returned = "None"]
              /\ Goto(p, "h_ret")
         ELSE /\ loc' = [loc EXCEPT ![p].data = d]
              /\ Goto(p, "h_tags")
  /\ UNCHANGED <<now, db, sched, runs>>

\* handle, lines 535-538: data.get(...) and create_or_get_tags
HTags(p) ==
  /\ pc[p] = "h_tags"
  /\ IF loc[p].data.kind = "nondict"
       THEN /\ Goto(p, "h_except")
            /\ loc' = [loc EXCEPT ![p].failure = "data"]
            /\ UNCHANGED tags
       ELSE LET r == create_or_get_tags(loc[p].data.tags, tags, {})
            IN  /\ tags' = r.table
                /\ loc' = [loc EXCEPT ![p].tags = r.tags,
                                      ![p].failure = IF r.raised THEN "tags" ELSE ""]
                /\ Goto(p, IF r.raised THEN "h_except" ELSE "h_save")
  /\ UNCHANGED <<now, posts, images, post_tags, next_pk, sched, runs>>

\* HSave on a table without the unique index on slug
HSaveNoUnique(p, refusals) ==
  /\ pc[p] = "h_save"
  /\ IF loc[p].data.kind = "nokey"
       THEN /\ Goto(p, "h_except")
            /\ loc' = [loc EXCEPT ![p].failure = "data"]
            /\ UNCHANGED <<posts, next_pk>>
       ELSE LET post == [NoPost EXCEPT !.title = loc[p].data.title,
                                       !.slug = loc[p].slug,
                                       !.category = loc[p].category,
                                       !.content = loc[p].data.content,
                                       !.published_at = now]
                sv == Post_save(post)
            IN  \E refused \in refusals :
                  IF sv.raised \/ refused
                    THEN /\ loc' = [loc EXCEPT ![p].has_post = TRUE,
                                               ![p].post = sv.post,
                                               ![p].failure =
                                  IF sv.raised \/ SlugExists(sv.post.slug)
                                    THEN "write" ELSE "refused"]
                         /\ Goto(p, "h_except")
                         /\ UNCHANGED <<posts, next_pk>>
                    ELSE LET row == [sv.post EXCEPT !.pk = next_pk]
                         IN  /\ posts' = posts \cup {row}
                             /\ next_pk' = next_pk + 1
                             /\ loc' = [loc EXCEPT ![p].has_post = TRUE,
                                                   ![p].post = row,
                                                   ![p].wrote = next_pk]
                             /\ Goto(p, "h_main")
  /\ UNCHANGED <<now, images, tags, post_tags, sched, runs>>

\* handle, lines 541-559: Post(...) and post.save(); the write fails on a
\* duplicate slug (unique=True) or when the database refuses it
HSave(p, refusals) ==
  /\ pc[p] = "h_save"
  /\ IF loc[p].data.kind = "nokey"
       THEN /\ Goto(p, "h_except")
            /\ loc' = [loc EXCEPT ![p].failure = "data"]
            /\ UNCHANGED <<posts, next_pk>>
       ELSE LET post == [NoPost EXCEPT !.title = loc[p].data.title,
                                       !.slug = loc[p].slug,
                                       !.category = loc[p].category,
                                       !.content = loc[p].data.content,
                                       !.published_at = now]
                sv == Post_save(post)
            IN  \E refused \in refusals :
                  IF sv.raised \/ SlugExists(sv.post.slug) \/ refused
                    THEN /\ loc' = [loc EXCEPT ![p].has_post = TRUE,
                                               ![p].post = sv.post,
                                               ![p].failure =
                                  IF sv.raised \/ SlugExists(sv.post.slug)
                                    THEN "write" ELSE "refused"]
                         /\ Goto(p, "h_except")
                         /\ UNCHANGED <<posts, next_pk>>
                    ELSE LET row == [sv.post EXCEPT !.pk = next_pk]
                         IN  /\ posts' = posts \cup {row}
                             /\ next_pk' = next_pk + 1
                             /\ loc' = [loc EXCEPT ![p].has_post = TRUE,
                                                   ![p].post = row,
                                                   ![p].wrote = next_pk]
                             /\ Goto(p, "h_main")
  /\ UNCHANGED <<now, images, tags, post_tags, sched, runs>>

\* handle, line 562: download_and_store_main_images (the second definition,
\* lines 463-493).  post.thumbnail and post.featured_image are None, so a
\* slot whose search and download succeed ends the method in its handler;
\* only when both slots fail is post.save() reached.  It returns None.
HMain(p) ==
  /\ pc[p] = "h_main"
  /\ \E thumb \in BOOLEAN, feat \in BOOLEAN :
       IF thumb \/ feat
         THEN UNCHANGED posts
         ELSE LET sv == Post_save(loc[p].post)
              IN  posts' = IF sv.raised THEN posts
                           ELSE RowsWithout(loc[p].post.pk) \cup {sv.post}
  /\ Goto(p, "h_settags")
  /\ UNCHANGED <<now, images, tags, post_tags, next_pk, sched, loc, runs>>

\* handle, line 566: post.tags.set(tags)
HSetTags(p, refusals) ==
  /\ pc[p] = "h_settags"
  /\ \E refused \in refusals :
       IF refused
         THEN /\ Goto(p, "h_rollback")
              /\ loc' = [loc EXCEPT ![p].failure = "set_tags"]
              /\ UNCHANGED post_tags
         ELSE /\ post_tags' = PostTagsWithout(loc[p].post.pk)
                               \cup { <<loc[p].post.pk, t>> : t \in loc[p].tags }
              /\ Goto(p, "h_images")
              /\ UNCHANGED loc
  /\ UNCHANGED <<now, posts, images, tags, next_pk, sched, runs>>

\* HImages with a failed slot raising into the handler of line 581
HImagesUncaught(p, outcomes) ==
  /\ pc[p] = "h_images"
  /\ \E stored \in outcomes :
       /\ images' = images \cup { [post |-> loc[p].post.pk,
                                   image_type |-> image_types[i],
                                   order |-> i] : i \in stored }
       /\ loc' = [loc EXCEPT ![p].stored = stored]
       /\ Goto(p, IF stored = 1..Len(image_types) THEN "h_report"
                   ELSE "h_rollback")
  /\ UNCHANGED <<now, posts, tags, post_tags, next_pk, sched, runs>>

\* handle, lines 569-573: download_and_store_post_images; stored is the set
\* of slots whose search and upload both succeed
HImages(p, outcomes) ==
  /\ pc[p] = "h_images"
  /\ \E stored \in outcomes :
       /\ images' = images \cup { [post |-> loc[p].post.pk,
                                   image_type |-> image_types[i],
                                   order |-> i] : i \in stored }
       /\ loc' = [loc EXCEPT ![p].stored = stored]
  /\ Goto(p, "h_report")
  /\ UNCHANGED <<now, posts, tags, post_tags, next_pk, sched, runs>>

\* handle, lines 575-579: the success report (post.images.count() is a query)
HReport(p, refusals) ==
  /\ pc[p] = "h_report"
  /\ \E refused \in refusals :
       IF refused
         THEN /\ Goto(p, "h_rollback")
              /\ loc' = [loc EXCEPT ![p].failure = "report"]
         ELSE /\ loc' = [loc EXCEPT ![p].outcome = "created",
                                    ![p].returned = "None"]
              /\ Goto(p, "h_ret")
  /\ UNCHANGED <<now, db, sched, runs>>

\* handle, lines 581-585: post.delete() and re-raise
HRollback(p) ==
  /\ pc[p] = "h_rollback"
  /\ posts' = RowsWithout(loc[p].post.pk)
  /\ images' = ImagesWithout(loc[p].post.pk)
  /\ post_tags' = PostTagsWithout(loc[p].post.pk)
  /\ loc' = [loc EXCEPT ![p].post.pk = 0]
  /\ Goto(p, "h_except")
  /\ UNCHANGED <<now, tags, next_pk, sched, runs>>

\* HExcept deleting by slug whenever a Post object was built
HExceptBySlug(p) ==
  /\ pc[p] = "h_except"
  /\ IF loc[p].has_post
       THEN /\ posts' = { r \in posts : r.slug # loc[p].post.slug }
            /\ images' = ImagesWithout(loc[p].post.pk)
            /\ post_tags' = PostTagsWithout(loc[p].post.pk)
       ELSE UNCHANGED <<posts, images, post_tags>>
  /\ loc' = [loc EXCEPT ![p].outcome = "error", ![p].returned = "None",
                        ![p].post.pk = 0]
  /\ Goto(p, "h_ret")
  /\ UNCHANGED <<now, tags, next_pk, sched, runs>>

\* handle, lines 587-591: the outer handler; handle then ends without a
\* return statement
HExcept(p) ==
  /\ pc[p] = "h_except"
  /\ IF loc[p].has_post /\ loc[p].post.pk # 0
       THEN /\ posts' = RowsWithout(loc[p].post.pk)
            /\ images' = ImagesWithout(loc[p].post.pk)
            /\ post_tags' = PostTagsWithout(loc[p].post.pk)
       ELSE UNCHANGED <<posts, images, post_tags>>
  /\ loc' = [loc EXCEPT ![p].outcome = "error", ![p].returned = "None",
                        ![p].post.pk = 0]
  /\ Goto(p, "h_ret")
  /\ UNCHANGED <<now, tags, next_pk, sched, runs>>

(* ---------------------------- detail view ----------------------------- *)

\* post.images.all(): the PostImage rows of a Post
PostImages(pk) == { i \in images : i.post = pk }

\* sorted(images, key=lambda x: x.order)
RECURSIVE SortedByOrder(_)
SortedByOrder(imgs) ==
  IF imgs = {} THEN <<>>
  ELSE LET first == CHOOSE i \in imgs : \A j \in imgs : i.order <= j.order
       IN  <<first>> \o SortedByOrder(imgs \ {first})

\* ReplacePlaceholders replacing the first occurrence of a placeholder only
ReplaceFirstOnly(content, imgs) ==
  [k \in DOMAIN content |->
     IF /\ content[k].kind = "placeholder"
        /\ \E i \in imgs : i.image_type = content[k].type
        /\ \A j \in 1..(k - 1) : content[j] # content[k]
       THEN ImageHtml(content[k].type)
       ELSE content[k]]

\* insert_images, lines 84-99: content.replace(placeholder, img_html) for
\* every image type the post has an image of
ReplacePlaceholders(content, imgs) ==
  [k \in DOMAIN content |->
     IF /\ content[k].kind = "placeholder"
        /\ \E i \in imgs : i.image_type = content[k].type
       THEN ImageHtml(content[k].type)
       ELSE content[k]]

\* insert_section_images: after the heading number j (from 0) comes the
\* image number j in order, while there is one
RECURSIVE insert_section_images(_, _, _)
insert_section_images(sections, sorted_images, j) ==
  IF sections = <<>> THEN <<>>
  ELSE LET piece == Head(sections)
       IN  IF piece.kind = "h2"
             THEN ( IF j < Len(sorted_images)
                      THEN <<piece, ImageHtml(sorted_images[j + 1].image_type)>>
                      ELSE <<piece>> )
                  \o insert_section_images(Tail(sections), sorted_images, j + 1)
             ELSE <<piece>>
                  \o insert_section_images(Tail(sections), sorted_images, j)

\* the insert_images filter
insert_images(content, imgs) ==
  LET replaced == ReplacePlaceholders(content, imgs)
  IN  IF imgs # {}
        THEN insert_section_images(replaced, SortedByOrder(imgs), 0)
        ELSE replaced

\* PostDetailView: get_object over Post.objects.filter(is_published=True)
VRead(p) ==
  /\ pc[p] = "idle"
  /\ \E r \in posts :
       /\ r.is_published
       /\ r.view_count < MaxViews
       /\ loc' = [loc EXCEPT ![p] = [NoLocals EXCEPT !.post = r]]
  /\ Goto(p, "v_count")
  /\ UNCHANGED <<now, db, sched, runs>>

\* get_context_data, lines 58-59: post.view_count += 1 and
\* post.save(update_fields=['view_count']), an UPDATE of that one column
\* from the value read; it raises when the row is gone
VCount(p) ==
  /\ pc[p] = "v_count"
  /\ LET post == [loc[p].post EXCEPT !.view_count = @ + 1]
     IN  IF \E r \in posts : r.pk = post.pk
           THEN /\ posts' = { IF r.pk = post.pk
                                THEN [r EXCEPT !.view_count = post.view_count]
                                ELSE r : r \in posts }
                /\ loc' = [loc EXCEPT ![p].post = post]
                /\ Goto(p, "v_render")
           ELSE /\ loc' = [loc EXCEPT ![p] = NoLocals]
                /\ Goto(p, "idle")
                /\ UNCHANGED posts
  /\ UNCHANGED <<now, images, tags, post_tags, next_pk, sched, runs>>

\* the detail page: the content of the post passed through insert_images
VRender(p) ==
  /\ pc[p] = "v_render"
  /\ LET imgs == PostImages(loc[p].post.pk)
     IN  loc' = [loc EXCEPT ![p].seen = imgs,
                            ![p].rendered = insert_images(loc[p].post.content, imgs)]
  /\ Goto(p, "v_done")
  /\ UNCHANGED <<now, db, sched, runs>>

\* the response is sent
VReturn(p) ==
  /\ pc[p] = "v_done"
  /\ loc' = [loc EXCEPT ![p] = NoLocals]
  /\ Goto(p, "idle")
  /\ UNCHANGED <<now, db, sched, runs>>

(* ----------------------------- scheduler ------------------------------ *)

\* get_or_create with last_run defaulting to the day before the creation
get_or_createYesterday ==
  IF scheduler.exists THEN scheduler
  ELSE [exists |-> TRUE, last_run |-> now - 1, is_running |-> FALSE,
        task_id |-> 0]

\* PostScheduler.objects.get_or_create(pk=1): the row, created with the
\* field defaults (last_run = timezone.now) when it does not exist
get_or_create ==
  IF scheduler.exists THEN scheduler
  ELSE [exists |-> TRUE, last_run |-> now, is_running |-> FALSE, task_id |-> 0]

\* ShouldRun with <= for <
ShouldRunToday(row, date) == row.last_run <= date /\ ~row.is_running

\* the condition of middleware.py line 14 and tasks.py line 66
ShouldRun(row, date) == row.last_run < date /\ ~row.is_running

\* DailyPostScheduler.__call__, lines 12-14: read the row and decide; a
\* request that is not due goes straight to get_response
MwCall(p) ==
  /\ pc[p] = "idle"
  /\ runs < MaxRuns
  /\ LET row == get_or_create
     IN  /\ scheduler' = row
         /\ IF ShouldRun(row, now)
              THEN /\ loc' = [loc EXCEPT ![p] = [NoLocals EXCEPT !.scheduler =
                                 [last_run |-> row.last_run,
                                  is_running |-> row.is_running,
                                  task_id |-> row.task_id]]]
                   /\ Goto(p, "mw_begin")
              ELSE UNCHANGED <<loc, pc>>
  /\ UNCHANGED <<now, db, queue, next_task, calls, last_done, runs>>

\* __call__, lines 18-22: is_running = True, save() of the instance read at
\* line 12, then Command().handle()
MwBegin(p) ==
  /\ pc[p] = "mw_begin"
  /\ scheduler' = [exists |-> TRUE,
                   last_run |-> loc[p].scheduler.last_run,
                   is_running |-> TRUE,
                   task_id |-> loc[p].scheduler.task_id]
  /\ loc' = [loc EXCEPT ![p].scheduler.is_running = TRUE]
  /\ runs' = runs + 1
  /\ calls' = calls + 1
  /\ Goto(p, "h_cat")
  /\ UNCHANGED <<now, db, queue, next_task, last_done>>

\* MwEnd without the finally block
MwEndSkipped(p) ==
  /\ p \in MwProcs
  /\ pc[p] = "h_ret"
  /\ loc' = [loc EXCEPT ![p] = NoLocals]
  /\ Goto(p, "idle")
  /\ UNCHANGED <<now, db, sched, runs>>

\* MwEnd with last_run left as it was read
MwEndStale(p) ==
  /\ p \in MwProcs
  /\ pc[p] = "h_ret"
  /\ scheduler' = [exists |-> TRUE,
                   last_run |-> loc[p].scheduler.last_run,
                   is_running |-> FALSE,
                   task_id |-> loc[p].scheduler.task_id]
  /\ last_done' = now
  /\ loc' = [loc EXCEPT ![p] = NoLocals]
  /\ Goto(p, "idle")
  /\ UNCHANGED <<now, db, queue, next_task, calls, runs>>

\* __call__, lines 23-28: the finally block, then get_response
MwEnd(p) ==
  /\ p \in MwProcs
  /\ pc[p] = "h_ret"
  /\ scheduler' = [exists |-> TRUE,
                   last_run |-> now,
                   is_running |-> FALSE,
                   task_id |-> loc[p].scheduler.task_id]
  /\ last_done' = now
  /\ loc' = [loc EXCEPT ![p] = NoLocals]
  /\ Goto(p, "idle")
  /\ UNCHANGED <<now, db, queue, next_task, calls, runs>>

\* generate_daily_post, lines 64-67: enqueue generate_blog_post when due
generate_daily_post ==
  /\ runs + Len(queue) < MaxRuns
  /\ Len(queue) < MaxQueue
  /\ LET row == get_or_create
     IN  /\ scheduler' = row
         /\ IF ShouldRun(row, now)
              THEN /\ queue' = Append(queue, [NoMsg EXCEPT !.id = next_task])
                   /\ next_task' = next_task + 1
              ELSE UNCHANGED <<queue, next_task>>
  /\ UNCHANGED <<now, db, pc, loc, runs, calls, last_done>>

\* generate_blog_post, lines 19-32: a worker takes a message, marks the row
\* running and calls cmd.handle
TaskStart(p) ==
  /\ pc[p] = "idle"
  /\ queue # <<>>
  /\ runs < MaxRuns
  /\ LET msg == Head(queue)
         row == get_or_create
     IN  /\ scheduler' = [row EXCEPT !.is_running = TRUE, !.task_id = msg.id]
         /\ loc' = [loc EXCEPT ![p] = [NoLocals EXCEPT !.msg = msg,
                                          !.category = msg.category,
                                          !.force = msg.force]]
         /\ Goto(p, IF msg.category = "" THEN "h_cat" ELSE "h_topic")
  /\ queue' = Tail(queue)
  /\ runs' = runs + 1
  /\ calls' = calls + 1
  /\ UNCHANGED <<now, db, next_task, last_done>>

\* Post.objects.filter(published_at__date=today).order_by('-published_at')
PublishedOn(date) == { r \in posts : r.published_at = date }

\* generate_blog_post, lines 34-53: look for a post published today; without
\* one raise ValueError, which the handler turns into self.retry
TaskVerify(p) ==
  /\ p \in WorkerProcs
  /\ pc[p] = "h_ret"
  /\ IF PublishedOn(now) # {}
       THEN /\ \E latest_post \in PublishedOn(now) :
                 loc' = [loc EXCEPT ![p].result = "success",
                                    ![p].post = latest_post]
            /\ UNCHANGED queue
       ELSE IF loc[p].msg.retries < MaxRetries
         THEN /\ queue' = Append(queue, [loc[p].msg EXCEPT !.retries = @ + 1])
              /\ loc' = [loc EXCEPT ![p].result = "retry"]
         ELSE /\ loc' = [loc EXCEPT ![p].result = "raised"]
              /\ UNCHANGED queue
  /\ Goto(p, "t_finally")
  /\ UNCHANGED <<now, db, scheduler, next_task, calls, last_done, runs>>

\* generate_blog_post, lines 55-60: the finally block
TaskEnd(p) ==
  /\ pc[p] = "t_finally"
  /\ scheduler' = [get_or_create EXCEPT !.is_running = FALSE, !.last_run = now]
  /\ last_done' = now
  /\ loc' = [loc EXCEPT ![p] = NoLocals]
  /\ Goto(p, "idle")
  /\ UNCHANGED <<now, db, queue, next_task, calls, runs>>

(* ------------------------ direct invocations -------------------------- *)

\* GeneratePostView.post / manage.py generate_post: cmd.handle(category=...,
\* force=...)
CliStart(p) ==
  /\ pc[p] = "idle"
  /\ runs < MaxCliRuns
  /\ \E category \in CliCategories, force \in BOOLEAN :
       /\ loc' = [loc EXCEPT ![p] = [NoLocals EXCEPT !.category = category,
                                                     !.force = force]]
       /\ Goto(p, IF category = "" THEN "h_cat" ELSE "h_topic")
  /\ runs' = runs + 1
  /\ UNCHANGED <<now, db, sched>>

\* GeneratePostView.post, lines 236-241: cmd.handle(category=category or
\* None), without force
ViewStart(p) ==
  /\ pc[p] = "idle"
  /\ runs < MaxCliRuns
  /\ \E category \in CliCategories :
       /\ loc' = [loc EXCEPT ![p] = [NoLocals EXCEPT !.category = category]]
       /\ Goto(p, IF category = "" THEN "h_cat" ELSE "h_topic")
  /\ runs' = runs + 1
  /\ UNCHANGED <<now, db, sched>>

\* GeneratePostView.post, lines 236-247: messages.success when cmd.handle
\* returned, messages.error when it raised.  The view passes no force.
ViewMessage(p) ==
  /\ pc[p] = "h_ret"
  /\ ~loc[p].force
  /\ loc' = [loc EXCEPT ![p].message =
                IF loc[p].returned = "raised" THEN "error" ELSE "success"]
  /\ Goto(p, "v_redirect")
  /\ UNCHANGED <<now, db, sched, runs>>

\* handle has returned to the command line, or the view redirects (line 249)
CliReturn(p) ==
  /\ pc[p] \in {"h_ret", "v_redirect"}
  /\ loc' = [loc EXCEPT ![p] = NoLocals]
  /\ Goto(p, "idle")
  /\ UNCHANGED <<now, db, sched, runs>>

\* every subset of the six content-image slots
AllSlotOutcomes == SUBSET (1..Len(image_types))
\* no slot stored, two slots stored with a gap between them, every slot stored
SomeSlotOutcomes == { {}, {1, 3}, 1..Len(image_types) }

PipeNext ==
  \E p \in CliProcs :
    \/ CliStart(p)
    \/ HCat(p)
    \/ HTopic(p)
    \/ HExists(p)
    \/ HGen(p, AllKinds, TagLists \ {<<>>}, {SixPlaceholders})
    \/ HTags(p)
    \/ HSave(p, BOOLEAN)
    \/ HMain(p)
    \/ HSetTags(p, BOOLEAN)
    \/ HImages(p, SomeSlotOutcomes)
    \/ HReport(p, BOOLEAN)
    \/ HRollback(p)
    \/ HExcept(p)
    \/ ViewMessage(p)
    \/ CliReturn(p)

PipeInit == Init /\ scheduler.exists

\* the generation command invoked directly on one date, by up to two
\* callers at once; a complete answer of the generator carries tags
PipeSpec == PipeInit /\ [][PipeNext]_vars

\* the processes of the scheduler-triggered paths
SchedProcs == MwProcs \cup WorkerProcs

\* a step of a trigger that has passed the check or taken its message
Run(p) ==
  \/ MwBegin(p)
  \/ MwEnd(p)
  \/ TaskVerify(p)
  \/ TaskEnd(p)
  \/ HCat(p)
  \/ HTopic(p)
  \/ HExists(p)
  \/ HGen(p, {"none", "full"}, {<<>>}, {<<Text>>})
  \/ HTags(p)
  \/ HSave(p, {FALSE})
  \/ HMain(p)
  \/ HSetTags(p, {FALSE})
  \/ HImages(p, {1..Len(image_types)})
  \/ HReport(p, {FALSE})
  \/ HExcept(p)

Next ==
  \/ Tick
  \/ generate_daily_post
  \/ \E p \in MwProcs : MwCall(p)
  \/ \E p \in WorkerProcs : TaskStart(p)
  \/ \E p \in SchedProcs : Run(p)

\* the scheduler-triggered paths: a request thread, a worker, the
\* periodic task and the clock.  The generator fails or answers with a
\* complete object without tags, the Post write fails only on a taken slug,
\* and the later steps of handle meet no failure.
Spec == Init /\ [][Next]_vars

\* the triggers within one date: the clock is held while runs are followed
\* to their end
FairNext ==
  \/ generate_daily_post
  \/ \E p \in MwProcs : MwCall(p)
  \/ \E p \in WorkerProcs : TaskStart(p)
  \/ \E p \in SchedProcs : Run(p)

\* a request thread or a worker that can take a step eventually takes one
FairSpec ==
  Init /\ [][FairNext]_vars /\ \A p \in SchedProcs : WF_vars(Run(p))

\* the date on which the topic of date 1 comes round again:
\* 15 % Len(Categories) = 0 and 15 % 15 = 0
RepeatDate == 16

\* the Post a successful run on date 1 leaves when no main image is stored
EarlierPost ==
  LET topic == TopicFor(CategoryFor(1), 1)
  IN  [Post_save([NoPost EXCEPT !.title = topic,
                                !.slug = slugify(topic),
                                !.category = CategoryFor(1),
                                !.content = SixPlaceholders,
                                !.published_at = 1]).post EXCEPT !.pk = 1]

\* date 16, the earlier runs having left the Post of date 1 or nothing
RepeatInit ==
  /\ now = RepeatDate
  /\ scheduler = [exists |-> TRUE, last_run |-> RepeatDate - 1,
                  is_running |-> FALSE, task_id |-> 0]
  /\ posts \in { {}, {EarlierPost} }
  /\ images = {}
  /\ tags = {}
  /\ post_tags = {}
  /\ next_pk = 2
  /\ queue = <<>>
  /\ next_task = 1
  /\ pc = [p \in Procs |-> "idle"]
  /\ loc = [p \in Procs |-> NoLocals]
  /\ runs = 0
  /\ calls = 0
  /\ last_done = RepeatDate - 1

\* the triggers on the date a topic comes round again
RepeatSpec == RepeatInit /\ [][FairNext]_vars

\* the number of days a topic list lasts
WindowDays == Len(get_daily_topics["plants"])

\* a month of each length: January, February and April 2023, February 2024
SampleMonths == {1, 2, 4, 14}

\* any date of the sample months, nothing stored yet
SelectInit ==
  /\ now \in { date \in 1..LastDate : MonthOf(date) \in SampleMonths }
  /\ scheduler = [exists |-> TRUE, last_run |-> 0, is_running |-> FALSE,
                  task_id |-> 0]
  /\ posts = {}
  /\ images = {}
  /\ tags = {}
  /\ post_tags = {}
  /\ next_pk = 1
  /\ queue = <<>>
  /\ next_task = 1
  /\ pc = [p \in Procs |-> "idle"]
  /\ loc = [p \in Procs |-> NoLocals]
  /\ runs = 0
  /\ calls = 0
  /\ last_done = -1

\* the clock passes midnight after the first caller has selected, up to
\* the end of the WindowDays days that begin with its selection
DayPasses ==
  /\ now < LastDate
  /\ pc["cli1"] = "h_exists"
  /\ now - loc["cli1"].today < WindowDays - 1
  /\ now' = now + 1
  /\ calls' = 0
  /\ UNCHANGED <<db, scheduler, queue, next_task, last_done, pc, loc, runs>>

SelectNext ==
  \/ DayPasses
  \/ \E p \in CliProcs :
       \/ ViewStart(p)
       \/ HCat(p)
       \/ HTopic(p)

\* two direct calls, on one date or up to WindowDays - 1 days apart, each
\* followed up to its selection of category, topic and slug
SelectSpec == SelectInit /\ [][SelectNext]_vars

RenderNext ==
  \/ \E p \in {"cli1"} :
       \/ CliStart(p)
       \/ HCat(p)
       \/ HTopic(p)
       \/ HExists(p)
       \/ HGen(p, {"full"}, {<<>>}, {SixPlaceholders, TwoPlaceholders})
       \/ HTags(p)
       \/ HSave(p, {FALSE})
       \/ HMain(p)
       \/ HSetTags(p, {FALSE})
       \/ HImages(p, SomeSlotOutcomes)
       \/ HReport(p, {FALSE})
       \/ HExcept(p)
       \/ CliReturn(p)
  \/ \E p \in {"v1"} :
       \/ VRead(p)
       \/ VCount(p)
       \/ VRender(p)
       \/ VReturn(p)

\* one direct caller whose generator answers with complete objects, and one
\* reader of the detail page
RenderSpec == PipeInit /\ [][RenderNext]_vars

\* the Post a successful run on date 2 stores after the one of date 1
SecondPost ==
  LET topic == TopicFor(CategoryFor(2), 2)
  IN  [Post_save([NoPost EXCEPT !.title = topic,
                                !.slug = slugify(topic),
                                !.category = CategoryFor(2),
                                !.content = TwoPlaceholders,
                                !.published_at = 2]).post EXCEPT !.pk = 2]

\* date 2 after two successful daily runs: both Posts are stored
ViewInit ==
  /\ now = 2
  /\ scheduler = [exists |-> TRUE, last_run |-> 2, is_running |-> FALSE,
                  task_id |-> 0]
  /\ posts = {EarlierPost, SecondPost}
  /\ images = {}
  /\ tags = {}
  /\ post_tags = {}
  /\ next_pk = 3
  /\ queue = <<>>
  /\ next_task = 1
  /\ pc = [p \in Procs |-> "idle"]
  /\ loc = [p \in Procs |-> NoLocals]
  /\ runs = 0
  /\ calls = 0
  /\ last_done = 2

ViewNext ==
  \E p \in ViewProcs :
    \/ VRead(p)
    \/ VCount(p)
    \/ VRender(p)
    \/ VReturn(p)

\* concurrent requests for the detail page of a stored Post
ViewSpec == ViewInit /\ [][ViewNext]_vars

\* the values an image field and a URL field of a Post form can carry
ImageFiles == {"", "upload.jpg"}
ImageUrls == {"", "https://example.org/photo.jpg"}

\* Post instances as the admin form builds them: a title, the slug typed or
\* left empty, and each of the four image fields filled or not
PostInstances ==
  { [NoPost EXCEPT !.title = TopicFor(c, 1), !.slug = sl, !.category = c,
                   !.published_at = 1,
                   !.thumbnail = th, !.thumbnail_url = thu,
                   !.featured_image = fe, !.featured_image_url = feu] :
      c \in {"plants", "flowers"}, sl \in {<<>>, <<"m", "y">>},
      th \in ImageFiles, thu \in ImageUrls,
      fe \in ImageFiles, feu \in ImageUrls }

\* an instance of Post has been built and save() is about to be called
SaveInit ==
  /\ now = 1
  /\ scheduler = [exists |-> TRUE, last_run |-> 1, is_running |-> FALSE,
                  task_id |-> 0]
  /\ posts = {}
  /\ images = {}
  /\ tags = {}
  /\ post_tags = {}
  /\ next_pk = 1
  /\ queue = <<>>
  /\ next_task = 1
  /\ pc = [p \in Procs |-> IF p = "cli1" THEN "s_new" ELSE "idle"]
  /\ \E post \in PostInstances :
       loc = [p \in Procs |-> IF p = "cli1"
                                THEN [NoLocals EXCEPT !.has_post = TRUE,
                                                      !.post = post]
                                ELSE NoLocals]
  /\ runs = 0
  /\ calls = 0
  /\ last_done = -1

\* Post.save, lines 143-155, called on the instance: the defaults, then
\* super().save() inserts the row; an exception of the defaults leaves the
\* instance as far as it got and reaches the caller
PostSave(p) ==
  /\ pc[p] = "s_new"
  /\ LET sv == Post_save(loc[p].post)
     IN  IF sv.raised
           THEN /\ loc' = [loc EXCEPT ![p].post = sv.post,
                                      ![p].returned = "raised"]
                /\ UNCHANGED <<posts, next_pk>>
           ELSE LET row == [sv.post EXCEPT !.pk = next_pk]
                IN  /\ posts' = posts \cup {row}
                    /\ next_pk' = next_pk + 1
                    /\ loc' = [loc EXCEPT ![p].post = row,
                                          ![p].wrote = next_pk,
                                          ![p].returned = "None"]
  /\ Goto(p, "s_done")
  /\ UNCHANGED <<now, images, tags, post_tags, sched, runs>>

SaveNext == \E p \in {"cli1"} : PostSave(p)

\* Post.save applied to every combination of the image fields
SaveSpec == SaveInit /\ [][SaveNext]_vars

\* a third tag name, whose slug is that of Tag1 followed by "-2"
Tag3 == <<"F","e","r","n"," ","2">>
TagNames == {Tag1, Tag2, Tag3}

\* the "tags" lists of the tag names: without a name, with each name once
\* in every order, and with one name twice
TagNameLists ==
  { l \in UNION { [1..n -> TagNames] : n \in 0..Cardinality(TagNames) } :
      \A i \in DOMAIN l, j \in DOMAIN l : l[i] = l[j] => i = j }
  \cup { <<Tag1, Tag1>> }

TagNext ==
  \E p \in {"cli1"} :
    \/ CliStart(p)
    \/ HCat(p)
    \/ HTopic(p)
    \/ HExists(p)
    \/ HGen(p, {"full"}, TagNameLists, {<<Text>>})
    \/ HTags(p)
    \/ HSave(p, {FALSE})
    \/ HMain(p)
    \/ HSetTags(p, {FALSE})
    \/ HImages(p, {{}})
    \/ HReport(p, {FALSE})
    \/ HExcept(p)
    \/ CliReturn(p)

\* one caller on one date whose generator answers with complete objects
\* carrying any of the tag lists, the Tag table growing from run to run
TagSpec == PipeInit /\ [][TagNext]_vars

ImageNext ==
  \E p \in {"cli1"} :
    \/ CliStart(p)
    \/ HCat(p)
    \/ HTopic(p)
    \/ HExists(p)
    \/ HGen(p, AllKinds, {<<>>}, {SixPlaceholders})
    \/ HTags(p)
    \/ HSave(p, BOOLEAN)
    \/ HMain(p)
    \/ HSetTags(p, BOOLEAN)
    \/ HImages(p, AllSlotOutcomes)
    \/ HReport(p, BOOLEAN)
    \/ HRollback(p)
    \/ HExcept(p)
    \/ CliReturn(p)

\* one caller on one date, with every combination of stored and failed
\* image slots; the generator answers without tags
ImageSpec == PipeInit /\ [][ImageNext]_vars

(* ------------------------------ claims -------------------------------- *)

\* C1: when a Post with the slug of the selected topic exists and force is
\* false, handle returns without calling the generator and without
\* creating, changing or deleting any Post, PostImage or Tag row, and one
\* Post with that slug is left.
C1_Idempotent ==
  [][ \A p \in CliProcs :
        /\ ( /\ pc[p] = "h_exists"
             /\ pc'[p] # "h_exists"
             /\ \E r \in posts : r.slug = loc[p].slug
             /\ ~loc[p].force )
           => /\ pc'[p] = "h_ret"
              /\ loc'[p].data = NoData
              /\ UNCHANGED <<posts, images, tags, post_tags>>
              /\ Cardinality({ r \in posts' : r.slug = loc[p].slug }) = 1
        /\ ( pc[p] = "h_ret" /\ loc[p].outcome = "exists" /\ pc'[p] # "h_ret" )
           => UNCHANGED <<posts, images, tags, post_tags>> ]_vars

C1_Witness ==
  \E p \in CliProcs :
    /\ pc[p] = "h_ret"
    /\ loc[p].outcome = "exists"
    /\ Cardinality({ r \in posts : r.slug = loc[p].slug }) = 1

\* C7: a run whose content generation failed (no response, a response that
\* is not a JSON object, or one without a required key) creates no Post,
\* no PostImage and no Tag row.
C7_NothingPersisted ==
  [][ \A p \in CliProcs :
        ( /\ pc'[p] # pc[p]
          /\ \/ loc[p].data.kind \in {"nondict", "nokey"}
             \/ loc'[p].outcome = "genfail" )
        => UNCHANGED <<posts, images, tags>> ]_vars

\* C8: in a run that wrote its Post row and met no failure other than
\* failed image searches, downloads and uploads, the Post row exists when
\* handle returns.
C8_ImageFailuresNonFatal ==
  \A p \in CliProcs :
    ( pc[p] = "h_ret" /\ loc[p].wrote # 0 /\ loc[p].failure = "" )
    => /\ \E r \in posts : r.pk = loc[p].wrote
       /\ loc[p].outcome = "created"

C8_Witness ==
  \E p \in CliProcs :
    /\ pc[p] = "h_ret"
    /\ loc[p].wrote # 0
    /\ loc[p].failure = ""
    /\ \E r \in posts : r.pk = loc[p].wrote
    /\ \A i \in images : i.post # loc[p].wrote

\* C9: when a run ends in a failure after it wrote its Post row, that Post
\* and every PostImage attached to it are gone when handle returns.
C9_AllOrNothing ==
  \A p \in CliProcs :
    ( pc[p] = "h_ret" /\ loc[p].wrote # 0 /\ loc[p].outcome = "error" )
    => /\ \A r \in posts : r.pk # loc[p].wrote
       /\ \A i \in images : i.post # loc[p].wrote

C9_Witness ==
  \E p \in CliProcs :
    /\ pc[p] = "h_ret"
    /\ loc[p].wrote # 0
    /\ loc[p].failure = "report"
    /\ \A r \in posts : r.pk # loc[p].wrote

\* C10: when content generation fails or the Post write raises, handle
\* raises or returns a failure value to its caller.
C10_FailureSignalled ==
  \A p \in CliProcs :
    ( pc[p] = "h_ret" /\ loc[p].outcome \in {"genfail", "error"} )
    => loc[p].returned # "None"

\* a trigger that has set is_running and has not yet written the row back
InRun(p) == pc[p] \notin {"idle", "mw_begin"}

C3_FlagReset ==
  /\ [][ \A p \in SchedProcs :
           ( InRun(p) /\ pc'[p] = "idle" )
           => ( ~scheduler'.is_running /\ scheduler'.last_run = now ) ]_vars
  /\ \A p \in SchedProcs : InRun(p) ~> ( pc[p] = "idle" )

C3_Witness ==
  /\ last_done = now
  /\ posts = {}
  /\ ~scheduler.is_running
  /\ scheduler.last_run = now
  /\ \A p \in SchedProcs : pc[p] = "idle"

\* C4: once a scheduler-triggered run has completed on the current date the
\* should-run condition is false; on a later date, with is_running reset,
\* it is true.
C4_DueAgainNextDay ==
  /\ last_done = now
       => ~( scheduler.last_run < now /\ ~scheduler.is_running )
  /\ ( last_done >= 1 /\ last_done < now /\ ~scheduler.is_running )
       => scheduler.last_run < now

C4_Witness ==
  /\ last_done >= 1
  /\ last_done < now
  /\ \E r \in posts : r.published_at = last_done
  /\ ~scheduler.is_running
  /\ \A p \in SchedProcs : pc[p] = "idle"

\* C5: at most one scheduler-triggered run is between its is_running =
\* true write and its end-of-run write.
C5_MutualExclusion ==
  Cardinality({ p \in SchedProcs : InRun(p) }) <= 1

\* C6: the scheduler-triggered paths (requests, generate_daily_post firings
\* and job-queue retries of generate_blog_post) invoke handle at most once
\* per calendar day.
C6_OnceDaily == calls <= 1

\* C11: GeneratePostView.post shows the success message only when the run
\* created a post, and the error message whenever content generation or
\* the Post write failed.
C11_MessageMatchesOutcome ==
  \A p \in CliProcs :
    pc[p] = "v_redirect"
    => /\ loc[p].message = "success" => loc[p].outcome = "created"
       /\ loc[p].outcome \in {"genfail", "error"} => loc[p].message = "error"

\* C12: when generate_blog_post runs with force false for a topic whose
\* Post already exists, on whatever date it was published, the task ends
\* without raising and without scheduling a retry.
C12_DuplicateIsNoError ==
  \A p \in WorkerProcs :
    ( /\ pc[p] = "t_finally"
      /\ loc[p].outcome = "exists"
      /\ ~loc[p].force )
    => loc[p].result = "success"

\* C13: when handle runs with force = true, finds a Post with the topic's
\* slug and the generator answers with a complete object, the run ends with
\* its new Post stored (beside the old one under another slug, or in its
\* place).
C13_ForceOverride ==
  \A p \in CliProcs :
    ( /\ pc[p] = "h_ret"
      /\ loc[p].force
      /\ loc[p].existed
      /\ loc[p].data.kind = "full"
      /\ loc[p].failure \in {"", "write"} )
    => /\ loc[p].outcome = "created"
       /\ \E r \in posts : r.pk = loc[p].wrote

\* C14: no two Post rows have the same slug, also when two runs for one
\* topic both pass the existence check before either writes, and when
\* force is true.
C14_SlugUnique ==
  \A r1 \in posts, r2 \in posts : r1.slug = r2.slug => r1 = r2

C14_Witness ==
  \E p \in CliProcs, q \in CliProcs :
    /\ p # q
    /\ loc[p].slug = loc[q].slug
    /\ ~loc[p].existed /\ ~loc[q].existed
    /\ \E r \in posts : r.pk = loc[p].wrote
    /\ pc[q] = "h_ret" /\ loc[q].failure = "write"

\* C15: a run deletes or modifies no Post but the one it created itself:
\* every step of a run leaves every other Post row as it was, for any
\* outcome, with force true or false, and when two runs interleave.
C15_OnlyOwnPost ==
  [][ \A p \in CliProcs :
        pc'[p] # pc[p]
        => \A r \in posts : r.pk # loc[p].wrote => r \in posts' ]_vars

C15_Witness ==
  \E p \in CliProcs :
    /\ pc[p] = "h_ret"
    /\ loc[p].outcome = "error"
    /\ loc[p].wrote # 0
    /\ \A r \in posts : r.pk # loc[p].wrote
    /\ \E r \in posts : r.pk < loc[p].wrote

\* C16: every stored Post has a non-empty thumbnail_url and
\* featured_image_url and is_published = true; a slot without a stored
\* image has the fixed placeholder URL; a Post has between zero and six
\* PostImage rows.
C16_PlaceholderFallback ==
  \A r \in posts :
    /\ r.thumbnail_url # ""
    /\ r.featured_image_url # ""
    /\ r.is_published
    /\ r.thumbnail = "" => r.thumbnail_url = PlaceholderThumb
    /\ r.featured_image = "" => r.featured_image_url = PlaceholderFeatured
    /\ Cardinality({ i \in images : i.post = r.pk }) \in 0..Len(image_types)

C16_Witness ==
  \E p \in CliProcs, r \in posts :
    /\ pc[p] = "h_ret"
    /\ loc[p].outcome = "created"
    /\ r.pk = loc[p].wrote
    /\ r.thumbnail_url = PlaceholderThumb
    /\ r.featured_image_url = PlaceholderFeatured
    /\ { i \in images : i.post = r.pk } = {}

\* every placeholder of the prompt occurs in the content
HasAllSix(content) ==
  \A i \in DOMAIN image_types :
    \E k \in DOMAIN content : content[k] = Placeholder(image_types[i])

NoPlaceholderLeft(content) ==
  \A k \in DOMAIN content : content[k].kind # "placeholder"

\* the six PostImage rows and the rendering that C17 describes
RoundTrip(content, imgs) ==
  /\ Cardinality(imgs) = Len(image_types)
  /\ { i.image_type : i \in imgs } = Range(image_types)
  /\ \A k \in DOMAIN content :
       content[k].kind = "placeholder"
       => ReplacePlaceholders(content, imgs)[k] = ImageHtml(content[k].type)
  /\ NoPlaceholderLeft(insert_images(content, imgs))

PottingMixGuide ==
  <<"P","o","t","t","i","n","g"," ","M","i","x"," ","G","u","i","d","e">>
PottingMixGuideSlug ==
  <<"p","o","t","t","i","n","g","-","m","i","x","-","g","u","i","d","e">>

SameWindow(p, q) ==
  /\ pc[p] = "h_exists" /\ pc[q] = "h_exists"
  /\ loc[p].category = loc[q].category
  /\ loc[p].today < loc[q].today
  /\ loc[q].today - loc[p].today < WindowDays

\* C19 (as claimed): for a fixed category the topics selected on any 15
\* consecutive calendar days are pairwise distinct, also when the days
\* span the end of a month of 28, 29, 30 or 31 days.
C19_NoRepeat ==
  \A p \in CliProcs, q \in CliProcs :
    SameWindow(p, q) => loc[p].topic # loc[q].topic

\* C19 (amended): they are pairwise distinct when the days lie in one
\* calendar month or span the end of a month of 30 days.
C19_NoRepeatWithinMonth ==
  \A p \in CliProcs, q \in CliProcs :
    ( /\ SameWindow(p, q)
      /\ \/ MonthOf(loc[p].today) = MonthOf(loc[q].today)
         \/ MonthLengths[MonthOf(loc[p].today)] = 30 )
    => loc[p].topic # loc[q].topic

C19_Witness ==
  \E p \in CliProcs, q \in CliProcs :
    /\ SameWindow(p, q)
    /\ loc[q].today - loc[p].today = WindowDays - 1
    /\ MonthOf(loc[p].today) # MonthOf(loc[q].today)
    /\ MonthLengths[MonthOf(loc[p].today)] = 30
    /\ loc[p].topic # loc[q].topic

\* C20: in every interleaving of concurrent detail-view requests the stored
\* view_count of a Post never decreases from one state to the next.
C20_ViewCountMonotonic ==
  [][ \A r \in posts, r2 \in posts' :
        r2.pk = r.pk => r2.view_count >= r.view_count ]_vars

\* C21: every completed detail-view request raises the stored view_count of
\* its Post by exactly one, so that N completed requests, sequential or
\* concurrent, leave it exactly N higher.
C21_EveryViewCounted ==
  [][ \A p \in ViewProcs :
        ( pc[p] = "v_count" /\ pc'[p] = "v_render" )
          => \A r \in posts, r2 \in posts' :
               ( r.pk = loc[p].post.pk /\ r2.pk = r.pk )
                 => r2.view_count = r.view_count + 1 ]_vars

\* C22: once a run has written its Post row, no later step of that run
\* (main images, tag association, content images, success report, or the
\* handling of a failure in one of them) deletes the row.
C22_KeptAfterWrite ==
  [][ \A p \in CliProcs :
        ( loc[p].wrote # 0 /\ pc'[p] # pc[p] )
          => \A r \in posts :
               r.pk = loc[p].wrote => \E r2 \in posts' : r2.pk = r.pk ]_vars

\* C23: every PostImage row has order equal to the 1-based position of its
\* image_type in (overview, care, closeup, indoor, healthy, decor); a post
\* has at most one row per image_type and at most six rows with distinct
\* orders; after the content-image step of a run the orders of its rows
\* are exactly the slots whose search and upload succeeded, a failed slot
\* leaving a gap.
C23_ContentImageRows ==
  LET types == <<"overview", "care", "closeup", "indoor", "healthy", "decor">>
  IN  /\ \A i \in images :
           /\ i.order \in 1..Len(types)
           /\ i.image_type = types[i.order]
      /\ \A i \in images, j \in images :
           ( i.post = j.post
             /\ ( i.image_type = j.image_type \/ i.order = j.order ) )
             => i = j
      /\ \A r \in posts : Cardinality(PostImages(r.pk)) <= Len(types)
      /\ \A p \in CliProcs :
           pc[p] = "h_report"
             => { i.order : i \in PostImages(loc[p].wrote) } = loc[p].stored

\* a run has stored slots 1, 3 and 6 and left gaps at 2, 4 and 5
C23_Witness ==
  \E p \in CliProcs :
    /\ pc[p] = "h_report"
    /\ loc[p].stored = {1, 3, 6}
    /\ { i.image_type : i \in PostImages(loc[p].wrote) }
         = {"overview", "closeup", "decor"}

\* C24: for every list of tag names and every Tag table, the call of
\* create_or_get_tags in handle does not raise, returns a Tag for every
\* name of the list, creates rows only for names that had no Tag, leaves
\* no two Tags with one slug, and creates nothing when it is repeated.
C24_TagGetOrCreate ==
  [][ \A p \in CliProcs :
        ( pc[p] = "h_tags" /\ pc'[p] # "h_tags" /\ loc[p].data.kind # "nondict" )
          => LET names == loc[p].data.tags
             IN  /\ pc'[p] = "h_save"
                 /\ \A i \in DOMAIN names :
                      \E t \in tags' : t.name = names[i] /\ t.slug \in loc'[p].tags
                 /\ \A t \in tags' \ tags :
                      /\ \E i \in DOMAIN names : names[i] = t.name
                      /\ \A u \in tags : u.name # t.name
                 /\ tags \subseteq tags'
                 /\ \A t \in tags', u \in tags' : t.slug = u.slug => t = u
                 /\ create_or_get_tags(names, tags', {}).table = tags' ]_vars

\* C25: while a scheduler-triggered run is in progress the stored
\* is_running is true; the end-of-run write of one run, made while another
\* run is in progress, leaves is_running true and leaves the stored task_id
\* as it was.
C25_FlagAccurate ==
  /\ [] ( \A p \in SchedProcs : InRun(p) => scheduler.is_running )
  /\ [][ \A p \in SchedProcs, q \in SchedProcs :
           ( p # q /\ InRun(q) /\ InRun(p) /\ pc'[p] = "idle" )
             => /\ scheduler'.is_running
                /\ scheduler'.task_id = scheduler.task_id ]_vars

\* C26: generate_blog_post returns status 'success' only when its own call
\* of handle created the Post of the topic it selected or found it stored,
\* and the Post it cites is the Post of that topic.
C26_OwnResult ==
  \A p \in WorkerProcs :
    ( pc[p] = "t_finally" /\ loc[p].result = "success" )
      => /\ loc[p].outcome \in {"created", "exists"}
         /\ loc[p].post.slug = loc[p].slug

\* C28: in an invocation of handle without a category argument the topic is
\* selected for the same calendar date as the category, also when the clock
\* passes midnight between the two reads of the current time.
C28_SingleDate ==
  [][ \A p \in SchedProcs :
        ( pc[p] = "h_topic" /\ pc'[p] = "h_exists" )
          => /\ loc'[p].today = loc[p].today
             /\ loc[p].category = CategoryFor(loc'[p].today) ]_vars

\* C27: without a category argument the selected category and topic have
\* indexes c and t with t congruent to c modulo 5, which leaves 15 pairs;
\* every Post the scheduler-triggered runs create is the Post of one of
\* these pairs, so that they create at most 15 Posts.
C27_FifteenPairs ==
  LET Pairs == { <<c, t>> \in (1..Len(Categories)) \X (1..15) :
                   (t - 1) % Len(Categories) = c - 1 }
      Topic(pair) == get_daily_topics[Categories[pair[1]]][pair[2]]
  IN  /\ Cardinality(Pairs) = 15
      /\ \A p \in SchedProcs :
           pc[p] = "h_exists"
             => \E pair \in Pairs :
                  /\ loc[p].category = Categories[pair[1]]
                  /\ loc[p].topic = Topic(pair)
      /\ \A r \in posts :
           \E pair \in Pairs :
             /\ r.category = Categories[pair[1]]
             /\ r.slug = slugify(Topic(pair))
      /\ Cardinality(posts) <= 15

\* C29: the check that creates the PostScheduler row (last_run = the time of
\* creation) starts no generation, and none is started on the day of the
\* creation: a generation is started, by the middleware or by
\* generate_daily_post, only at a check that finds last_run on an earlier
\* day, and from the creation on the row and every instance read from it
\* carry a last_run no earlier than the day of the creation.
C29_FirstDay ==
  [][ LET Started ==
            \/ \E p \in MwProcs : pc[p] = "idle" /\ pc'[p] = "mw_begin"
            \/ next_task' # next_task
          Known ==
            { scheduler.last_run }
              \cup { loc[p].scheduler.last_run :
                       p \in { q \in MwProcs : pc[q] # "idle" } }
      IN  /\ ( ~scheduler.exists /\ scheduler'.exists )
                => /\ ~Started
                   /\ \A d \in Known' : d = now
          /\ Started => scheduler.exists /\ scheduler.last_run < now
          /\ \A c \in 1..now :
               ( scheduler.exists /\ \A d \in Known : d >= c )
                 => \A d \in Known' : d >= c ]_vars

\* the row was created on day 1, no run has ended since, and on day 2 the
\* middleware starts the first generation
C29_Witness ==
  /\ now = 2
  /\ last_done = -1
  /\ pc["mw1"] = "mw_begin"
  /\ loc["mw1"].scheduler.last_run = 1

\* C30: Post.save completes without raising for every combination of the
\* image fields; afterwards a slot that had neither an image nor a URL holds
\* its placeholder URL and a slot that had a value is unchanged.
C30_SaveTotal ==
  [][ \A p \in CliProcs :
        ( pc[p] = "s_new" /\ pc'[p] = "s_done" )
          => LET before == loc[p].post
                 after == loc'[p].post
             IN  /\ loc'[p].returned # "raised"
                 /\ after.thumbnail = before.thumbnail
                 /\ after.featured_image = before.featured_image
                 /\ after.thumbnail_url =
                      IF before.thumbnail = "" /\ before.thumbnail_url = ""
                        THEN PlaceholderThumb ELSE before.thumbnail_url
                 /\ after.featured_image_url =
                      IF before.featured_image = ""
                         /\ before.featured_image_url = ""
                        THEN PlaceholderFeatured
                        ELSE before.featured_image_url ]_vars

=============================================================================
